---- MODULE Spec2Model ----
(***************************************************************************)
(* A model of two view components of the workflow builder:                 *)
(*   OutputSelect        (output-select.tsx)                                *)
(*   SettingsNavigation  (settings-navigation.tsx)                          *)
(*                                                                         *)
(* JavaScript strings are modelled as sequences of tokens (a token is one  *)
(* character, or the literal word "response"), so that template literals   *)
(* such as `${prefix}.${path}` are real concatenations and two different   *)
(* key sequences can produce the same string.                              *)
(***************************************************************************)
EXTENDS Integers, Sequences, FiniteSets, TLC

VARIABLES
    \* ---- the workflow store (useWorkflowStore)
    blocks,                     \* Object.values(state.blocks), in own-key order
    edges,                      \* state.edges, an array of [source, target]
    \* ---- props of OutputSelect
    workflowId,
    selectedOutput,
    \* ---- the OutputSelect instance
    mounted,
    isOutputDropdownOpen,
    listeners,                  \* mousedown listeners of this instance on document
    workflowOutputs,            \* useMemo, deps [blocks, workflowId]
    selectedOutputDisplayName,  \* useMemo, deps [selectedOutput, workflowOutputs, placeholder]
    selectedOutputInfo,         \* useMemo, deps [selectedOutput, workflowOutputs]
    groupedOutputs,             \* useMemo, deps [workflowOutputs, blocks]
    blockDistances,             \* local of the last groupedOutputs computation
    groupsArray,                \* local of the last groupedOutputs computation (sorted)
    callCount,                  \* number of onOutputSelect invocations
    lastCall,                   \* argument of the last onOutputSelect invocation
    \* ---- the groupedOutputs computation, one loop iteration at a time
    pc,
    queue,
    visited,
    assignLog,                  \* node ids in the order blockDistances[id] was assigned
    iterations,                 \* iterations of the while loop so far
    \* ---- SettingsNavigation
    isDev,
    isTeam,
    activeSection,
    navigationItems,
    sectionCallCount,
    lastSectionCall

vars == <<blocks, edges, workflowId, selectedOutput, mounted, isOutputDropdownOpen,
          listeners, workflowOutputs, selectedOutputDisplayName, selectedOutputInfo,
          groupedOutputs, blockDistances, groupsArray, callCount, lastCall,
          pc, queue, visited, assignLog, iterations,
          isDev, isTeam, activeSection, navigationItems, sectionCallCount,
          lastSectionCall>>

storeVars == <<blocks, edges>>
propVars == <<workflowId, selectedOutput>>
memoVars == <<workflowOutputs, selectedOutputDisplayName, selectedOutputInfo,
              groupedOutputs, blockDistances, groupsArray>>
callVars == <<callCount, lastCall>>
bfsVars == <<pc, queue, visited, assignLog, iterations>>
navVars == <<isDev, isTeam, activeSection, navigationItems, sectionCallCount,
             lastSectionCall>>
selectVars == <<mounted, isOutputDropdownOpen, listeners>>

(***************************************************************************)
(* Bounds of the model.                                                    *)
(***************************************************************************)
\* value nodes plus blocks in one input of the flattening specification
MaxNodes == 5
\* edges in one input of the traversal specifications
MaxEdges == 3
\* edges in one input of the grouping specification
MaxGroupEdges == 2
\* onOutputSelect / onSectionChange invocations that are counted
MaxCalls == 2

(***************************************************************************)
(* Strings.                                                                *)
(***************************************************************************)
Range(s) == {s[i] : i \in 1..Len(s)}

\* null, undefined and '' for a string-valued prop: all fail `if (x)` / pass `!x`
NullStr == <<>>

\* `if (s)` on a string
TruthyStr(s) == s # <<>>

Dot == <<".">>
Underscore == <<"_">>
ResponseKey == <<"response">>

\* /\s+/g matches these tokens
IsWhitespace(t) == t = " "

\* String.prototype.toLowerCase, per token
ToLowerToken(t) ==
    CASE t = "A" -> "a"
      [] t = "B" -> "b"
      [] OTHER -> t

\* block.name.replace(/\s+/g, '').toLowerCase()
NormalizeName(name) ==
    LET kept == SelectSeq(name, LAMBDA t : ~IsWhitespace(t))
    IN  [i \in 1..Len(kept) |-> ToLowerToken(kept[i])]

(***************************************************************************)
(* Output values: a leaf or a mapping.  tag is                             *)
(*   "str"    a non-empty string leaf (the type descriptor of an output)   *)
(*   "null"   the leaf null                                                *)
(*   "undef"  undefined (an absent property)                               *)
(*   "obj"    an object; entries is Object.entries(value), keys distinct   *)
(***************************************************************************)
StrLeaf == [tag |-> "str", entries |-> <<>>]
NullLeaf == [tag |-> "null", entries |-> <<>>]
Undefined == [tag |-> "undef", entries |-> <<>>]
Obj(es) == [tag |-> "obj", entries |-> es]

\* typeof v === 'object' && v !== null
IsObject(v) == v.tag = "obj"

\* `if (v)`: objects and non-empty strings are truthy, null and undefined are not
Truthy(v) == v.tag \in {"obj", "str"}

\* obj[key]
GetProp(obj, key) ==
    IF \E i \in 1..Len(obj.entries) : obj.entries[i][1] = key
    THEN LET i == CHOOSE i \in 1..Len(obj.entries) : obj.entries[i][1] = key
         IN  obj.entries[i][2]
    ELSE Undefined

StarterType == "starter"
AgentType == "agent"

(***************************************************************************)
(* workflowOutputs (lines 27-77).                                          *)
(***************************************************************************)
\* the object pushed for a leaf
OutputHandle(block, fullPath) ==
    [id        |-> block.id \o Underscore \o fullPath,
     label     |-> NormalizeName(block.name) \o Dot \o fullPath,
     blockId   |-> block.id,
     blockName |-> block.name,
     blockType |-> block.type,
     path      |-> fullPath]

FullPath(path, prefix) == IF TruthyStr(prefix) THEN prefix \o Dot \o path ELSE path

RECURSIVE addOutput(_, _, _, _)
RECURSIVE addOutputEntries(_, _, _)

\* Object.entries(outputObj).forEach(([key, value]) => addOutput(key, value, fullPath))
addOutputEntries(entries, fullPath, block) ==
    IF entries = <<>>
    THEN <<>>
    ELSE addOutput(entries[1][1], entries[1][2], fullPath, block)
         \o addOutputEntries(Tail(entries), fullPath, block)

\* the handles one call of addOutput pushes, in order
addOutput(path, outputObj, prefix, block) ==
    LET fullPath == FullPath(path, prefix)
    IN  IF IsObject(outputObj)
        THEN addOutputEntries(outputObj.entries, fullPath, block)
        ELSE <<OutputHandle(block, fullPath)>>

\* faulty variant: the starter block is not skipped
BlockOutputsKeepStarter(block) ==
    IF IsObject(block.outputs) /\ Truthy(GetProp(block.outputs, ResponseKey))
    THEN addOutput(ResponseKey, GetProp(block.outputs, ResponseKey), <<>>, block)
    ELSE <<>>

\* the body of the forEach over the blocks: the handles one block pushes
BlockOutputs(block) ==
    IF block.type = StarterType
    THEN <<>>
    ELSE IF Truthy(block.outputs) /\ IsObject(block.outputs)
         THEN IF Truthy(GetProp(block.outputs, ResponseKey))
              THEN addOutput(ResponseKey, GetProp(block.outputs, ResponseKey), <<>>, block)
              ELSE <<>>
         ELSE <<>>

RECURSIVE ForEachBlock(_)
ForEachBlock(bs) ==
    IF bs = <<>> THEN <<>> ELSE BlockOutputs(bs[1]) \o ForEachBlock(Tail(bs))

WorkflowOutputs(bs, wfId) ==
    IF ~TruthyStr(wfId) THEN <<>> ELSE ForEachBlock(bs)

(***************************************************************************)
(* selectedOutputDisplayName and selectedOutputInfo (lines 79-100).        *)
(***************************************************************************)
Placeholder == <<"S", "e", "l", "e", "c", "t">>

\* workflowOutputs.find((o) => o.id === selectedOutput): <<>> or <<the first match>>
FindOutput(outputs, sel) ==
    IF \E i \in 1..Len(outputs) : outputs[i].id = sel
    THEN LET i == CHOOSE i \in 1..Len(outputs) :
                    /\ outputs[i].id = sel
                    /\ \A j \in 1..(i - 1) : outputs[j].id # sel
         IN  <<outputs[i]>>
    ELSE <<>>

\* faulty variant: a selected id that is not found is displayed as it is
SelectedOutputDisplayNameEcho(sel, outputs) ==
    IF ~TruthyStr(sel)
    THEN Placeholder
    ELSE LET found == FindOutput(outputs, sel)
         IN  IF found # <<>>
             THEN NormalizeName(found[1].blockName) \o Dot \o found[1].path
             ELSE sel

SelectedOutputDisplayName(sel, outputs) ==
    IF ~TruthyStr(sel)
    THEN Placeholder
    ELSE LET found == FindOutput(outputs, sel)
         IN  IF found # <<>>
             THEN NormalizeName(found[1].blockName) \o Dot \o found[1].path
             ELSE Placeholder

\* <<>> is null
SelectedOutputInfo(sel, outputs) ==
    IF ~TruthyStr(sel)
    THEN <<>>
    ELSE LET found == FindOutput(outputs, sel)
         IN  IF found = <<>>
             THEN <<>>
             ELSE <<[blockName |-> found[1].blockName,
                     blockId   |-> found[1].blockId,
                     blockType |-> found[1].blockType,
                     path      |-> found[1].path]>>

(***************************************************************************)
(* JavaScript objects used as dictionaries (groups, the reduce accumulator, *)
(* adjList, blockDistances).  A dictionary that is iterated is the sequence *)
(* of its <<key, value>> entries in own-property order: keys that are array *)
(* indices first, in ascending numeric order, then the other string keys in *)
(* insertion order.  Keys inherited from Object.prototype ("constructor",   *)
(* "toString", ...) are not in the domain of block names modelled here.     *)
(***************************************************************************)
Digits == {"0", "1", "2", "3", "4", "5", "6", "7", "8", "9"}

DigitValue(t) ==
    CASE t = "0" -> 0 [] t = "1" -> 1 [] t = "2" -> 2 [] t = "3" -> 3 [] t = "4" -> 4
      [] t = "5" -> 5 [] t = "6" -> 6 [] t = "7" -> 7 [] t = "8" -> 8 [] t = "9" -> 9

RECURSIVE ToNumber(_)
ToNumber(s) ==
    IF s = <<>> THEN 0 ELSE 10 * ToNumber(SubSeq(s, 1, Len(s) - 1)) + DigitValue(s[Len(s)])

\* a canonical array index: decimal digits, no leading zero, below 2^32 - 1
\* (every such key of up to nine digits; longer keys are not modelled)
IsArrayIndex(key) ==
    /\ Len(key) \in 1..9
    /\ \A i \in 1..Len(key) : key[i] \in Digits
    /\ (Len(key) = 1 \/ key[1] # "0")

HasKey(obj, key) == \E i \in 1..Len(obj) : obj[i][1] = key

GetKey(obj, key) == obj[CHOOSE i \in 1..Len(obj) : obj[i][1] = key][2]

\* obj[key] = value
SetKey(obj, key, value) ==
    IF HasKey(obj, key)
    THEN [i \in 1..Len(obj) |-> IF obj[i][1] = key THEN <<key, value>> ELSE obj[i]]
    ELSE IF IsArrayIndex(key)
         THEN LET before == Cardinality({i \in 1..Len(obj) :
                                 /\ IsArrayIndex(obj[i][1])
                                 /\ ToNumber(obj[i][1]) < ToNumber(key)})
              IN  SubSeq(obj, 1, before) \o <<<<key, value>>>>
                  \o SubSeq(obj, before + 1, Len(obj))
         ELSE Append(obj, <<key, value>>)

\* a dictionary that is only read by key: a function
AssignKey(f, key, value) ==
    [k \in (DOMAIN f) \cup {key} |-> IF k = key THEN value ELSE f[k]]

(***************************************************************************)
(* groupedOutputs (lines 103-172).                                         *)
(***************************************************************************)
\* Object.values(blocks).find((block) => block.type === 'starter')?.id
StarterBlockId(bs) ==
    IF \E i \in 1..Len(bs) : bs[i].type = StarterType
    THEN LET i == CHOOSE i \in 1..Len(bs) :
                    /\ bs[i].type = StarterType
                    /\ \A j \in 1..(i - 1) : bs[j].type # StarterType
         IN  bs[i].id
    ELSE NullStr

\* adjList[source]: the targets of the edges out of source, in edge order
RECURSIVE TargetsOf(_, _)
TargetsOf(es, source) ==
    IF es = <<>>
    THEN <<>>
    ELSE (IF es[1].source = source THEN <<es[1].target>> ELSE <<>>)
         \o TargetsOf(Tail(es), source)

AdjList(es) == [s \in {es[i].source : i \in 1..Len(es)} |-> TargetsOf(es, s)]

\* adjList[currentNodeId] || []
OutgoingNodeIds(adjList, nodeId) ==
    IF nodeId \in DOMAIN adjList THEN adjList[nodeId] ELSE <<>>

BfsStart(starterBlockId) ==
    [queue          |-> <<[id |-> starterBlockId, distance |-> 0]>>,
     visited        |-> {},
     blockDistances |-> <<>>,
     assigned       |-> <<>>]

\* faulty variant: no visited check
BfsIterationNoVisited(st, adjList) ==
    LET current == st.queue[1]
        out == OutgoingNodeIds(adjList, current.id)
    IN  [queue          |-> Tail(st.queue)
                            \o [i \in 1..Len(out) |->
                                  [id |-> out[i], distance |-> current.distance + 1]],
         visited        |-> st.visited \cup {current.id},
         blockDistances |-> AssignKey(st.blockDistances, current.id, current.distance),
         assigned       |-> <<current.id>>]

\* faulty variant: the targets go to the front of the queue
BfsIterationDepthFirst(st, adjList) ==
    LET current == st.queue[1]
        out == OutgoingNodeIds(adjList, current.id)
    IN  IF current.id \in st.visited
        THEN [st EXCEPT !.queue = Tail(st.queue), !.assigned = <<>>]
        ELSE [queue          |-> [i \in 1..Len(out) |->
                                    [id |-> out[i], distance |-> current.distance + 1]]
                                 \o Tail(st.queue),
              visited        |-> st.visited \cup {current.id},
              blockDistances |-> AssignKey(st.blockDistances, current.id, current.distance),
              assigned       |-> <<current.id>>]

\* one iteration of the while loop (lines 127-141); assigned is what it assigned
BfsIteration(st, adjList) ==
    LET current == st.queue[1]
        out == OutgoingNodeIds(adjList, current.id)
    IN  IF current.id \in st.visited
        THEN [st EXCEPT !.queue = Tail(st.queue), !.assigned = <<>>]
        ELSE [queue          |-> Tail(st.queue)
                                 \o [i \in 1..Len(out) |->
                                       [id |-> out[i], distance |-> current.distance + 1]],
              visited        |-> st.visited \cup {current.id},
              blockDistances |-> AssignKey(st.blockDistances, current.id, current.distance),
              assigned       |-> <<current.id>>]

RECURSIVE BfsLoop(_, _)
BfsLoop(st, adjList) ==
    IF Len(st.queue) > 0 THEN BfsLoop(BfsIteration(st, adjList), adjList) ELSE st

\* lines 108-142: blockDistances after the traversal
BlockDistances(bs, es) ==
    LET starterBlockId == StarterBlockId(bs)
    IN  IF TruthyStr(starterBlockId)
        THEN BfsLoop(BfsStart(starterBlockId), AdjList(es)).blockDistances
        ELSE <<>>

\* faulty variant: a name seen before starts its group again
GroupPushOverwrite(groups, output) ==
    SetKey(groups, output.blockName, <<output>>)

\* the body of workflowOutputs.forEach (lines 145-150)
GroupPush(groups, output) ==
    LET g == IF ~HasKey(groups, output.blockName)
             THEN SetKey(groups, output.blockName, <<>>)
             ELSE groups
    IN  SetKey(g, output.blockName, Append(GetKey(g, output.blockName), output))

RECURSIVE GroupByName(_, _)
GroupByName(groups, outputs) ==
    IF outputs = <<>>
    THEN groups
    ELSE GroupByName(GroupPush(groups, outputs[1]), Tail(outputs))

\* blockId ? blockDistances[blockId] || 0 : 0
DistanceOrZero(distances, blockId) ==
    IF TruthyStr(blockId) /\ blockId \in DOMAIN distances THEN distances[blockId] ELSE 0

\* Object.entries(groups).map(...) (lines 153-159)
GroupsArray(groups, distances) ==
    [i \in 1..Len(groups) |->
        [blockName |-> groups[i][1],
         outputs   |-> groups[i][2],
         distance  |-> DistanceOrZero(distances, groups[i][2][1].blockId)]]

\* x goes behind every element that does not sort after it: (a, b) => b.distance - a.distance
SortInsert(sorted, x) ==
    LET before == Cardinality({i \in 1..Len(sorted) : sorted[i].distance >= x.distance})
    IN  SubSeq(sorted, 1, before) \o <<x>> \o SubSeq(sorted, before + 1, Len(sorted))

\* Array.prototype.sort, which is stable
RECURSIVE SortByDistance(_)
SortByDistance(arr) ==
    IF arr = <<>>
    THEN <<>>
    ELSE SortInsert(SortByDistance(SubSeq(arr, 1, Len(arr) - 1)), arr[Len(arr)])

\* groupsArray.reduce(...) (lines 165-171)
RECURSIVE ReduceToRecord(_, _)
ReduceToRecord(acc, arr) ==
    IF arr = <<>>
    THEN acc
    ELSE ReduceToRecord(SetKey(acc, arr[1].blockName, arr[1].outputs), Tail(arr))

\* the whole useMemo callback: its locals and its result
GroupedResult(distances, sorted) ==
    [blockDistances |-> distances,
     groupsArray    |-> sorted,
     groupedOutputs |-> ReduceToRecord(<<>>, sorted)]

ComputeGroupedOutputs(outputs, bs, es) ==
    GroupedResult(BlockDistances(bs, es),
                  SortByDistance(GroupsArray(GroupByName(<<>>, outputs),
                                             BlockDistances(bs, es))))

(***************************************************************************)
(* The effect of lines 181-193 and the handlers.                           *)
(***************************************************************************)
\* document.addEventListener('mousedown', handleClickOutside)
EffectMount(n) == n + 1

\* faulty variant: the cleanup removes nothing
EffectCleanupLeak(n) == n

\* the cleanup: document.removeEventListener('mousedown', handleClickOutside)
EffectCleanup(n) == n - 1

\* handleClickOutside, run by each registered listener; refSet is dropdownRef.current
\* being set, inside is dropdownRef.current.contains(event.target)
HandleClickOutside(open, registered, refSet, inside) ==
    IF registered > 0 /\ refSet /\ ~inside THEN FALSE ELSE open

(***************************************************************************)
(* SettingsNavigation (settings-navigation.tsx).                           *)
(***************************************************************************)
allNavigationItems ==
    <<[id |-> "general",      hideInDev |-> FALSE, requiresTeam |-> FALSE],
      [id |-> "environment",  hideInDev |-> FALSE, requiresTeam |-> FALSE],
      [id |-> "account",      hideInDev |-> FALSE, requiresTeam |-> FALSE],
      [id |-> "credentials",  hideInDev |-> FALSE, requiresTeam |-> FALSE],
      [id |-> "apikeys",      hideInDev |-> FALSE, requiresTeam |-> FALSE],
      [id |-> "subscription", hideInDev |-> TRUE,  requiresTeam |-> FALSE],
      [id |-> "team",         hideInDev |-> TRUE,  requiresTeam |-> TRUE]>>

SectionIds == {allNavigationItems[i].id : i \in 1..Len(allNavigationItems)}

\* faulty variant: the team test is inverted
KeepItemTeamInverted(item, dev, team) ==
    IF item.hideInDev /\ dev
    THEN FALSE
    ELSE IF item.requiresTeam /\ team THEN FALSE ELSE TRUE

\* the filter callback (lines 63-75)
KeepItem(item, dev, team) ==
    IF item.hideInDev /\ dev
    THEN FALSE
    ELSE IF item.requiresTeam /\ ~team THEN FALSE ELSE TRUE

NavigationItems(dev, team) ==
    SelectSeq(allNavigationItems, LAMBDA item : KeepItem(item, dev, team))

(***************************************************************************)
(* Inputs.                                                                 *)
(***************************************************************************)
BlockIds == <<<<"b1">>, <<"b2">>, <<"b3">>, <<"b4">>, <<"b5">>, <<"b6">>, <<"b7">>>>
DigitOf == <<"1", "2", "3", "4", "5", "6", "7">>
WorkflowIds == {NullStr, <<"w">>}
BlockTypes == {StarterType, AgentType}

Block(id, name, type, outputs) ==
    [id |-> id, name |-> name, type |-> type, outputs |-> outputs]

WithResponse(r) == Obj(<<<<ResponseKey, r>>>>)
WithoutResponse == Obj(<<<<<<"o">>, StrLeaf>>>>)

\* ---- output values with at most n nodes, over the keys "a" and "a.a"
OutputKeys == <<<<"a">>, <<"a", ".", "a">>>>

RECURSIVE Size(_)
RECURSIVE SizeOfEntries(_)
SizeOfEntries(es) ==
    IF es = <<>> THEN 0 ELSE Size(es[1][2]) + SizeOfEntries(Tail(es))
Size(v) == IF IsObject(v) THEN 1 + SizeOfEntries(v.entries) ELSE 1

RECURSIVE ValuesUpTo(_)
RECURSIVE EntriesFrom(_, _)
EntriesFrom(k, n) ==
    IF k > Len(OutputKeys)
    THEN {<<>>}
    ELSE EntriesFrom(k + 1, n)
         \cup UNION {{<<<<OutputKeys[k], v>>>> \o rest :
                         rest \in EntriesFrom(k + 1, n - Size(v))} : v \in ValuesUpTo(n)}
ValuesUpTo(n) ==
    IF n <= 0
    THEN {}
    ELSE {StrLeaf, NullLeaf} \cup {Obj(es) : es \in EntriesFrom(1, n - 1)}

\* block.outputs of a block that costs at most n nodes (the block itself is one)
OutputsUpTo(n) ==
    IF n <= 0
    THEN {}
    ELSE {Undefined, WithoutResponse} \cup {WithResponse(r) : r \in ValuesUpTo(n - 1)}

Cost(outputs) ==
    IF IsObject(outputs) /\ IsObject(GetProp(outputs, ResponseKey))
    THEN 1 + Size(GetProp(outputs, ResponseKey))
    ELSE IF IsObject(outputs) /\ GetProp(outputs, ResponseKey) # Undefined THEN 2 ELSE 1

\* lists of blocks b_k, b_k+1, ... that cost at most n nodes together
RECURSIVE FlattenBlocksFrom(_, _)
FlattenBlocksFrom(k, n) ==
    IF k > Len(BlockIds) \/ n <= 0
    THEN {<<>>}
    ELSE {<<>>}
         \cup UNION {{<<Block(BlockIds[k], <<"A", " ", DigitOf[k]>>, b[1], b[2])>> \o rest :
                         rest \in FlattenBlocksFrom(k + 1, n - Cost(b[2]))} :
                     b \in BlockTypes \X OutputsUpTo(n)}

\* ---- graphs
NodeIds == {BlockIds[1], BlockIds[2], BlockIds[3]}
Edge(s, t) == [source |-> s, target |-> t]
AllEdges == {Edge(s, t) : s \in NodeIds, t \in NodeIds}

RECURSIVE EdgeSeqs(_)
EdgeSeqs(n) ==
    IF n <= 0
    THEN {<<>>}
    ELSE EdgeSeqs(n - 1)
         \cup {Append(es, e) : es \in {x \in EdgeSeqs(n - 1) : Len(x) = n - 1}, e \in AllEdges}

\* ---- the grouping inputs: up to three blocks, each a starter or not, names that
\* collide and names that are array indices
GroupNames == {<<"1">>, <<"2">>, <<"A">>}
GroupOutputs == <<WithResponse(Obj(<<<<<<"a">>, StrLeaf>>, <<<<"a", ".", "a">>, StrLeaf>>>>)),
                  WithResponse(StrLeaf),
                  WithResponse(Obj(<<<<<<"a">>, NullLeaf>>>>))>>

RECURSIVE GroupBlocksFrom(_)
GroupBlocksFrom(k) ==
    IF k > Len(GroupOutputs)
    THEN {<<>>}
    ELSE {<<>>}
         \cup {<<Block(BlockIds[k], b[1], b[2], GroupOutputs[k])>> \o rest :
                  b \in GroupNames \X BlockTypes, rest \in GroupBlocksFrom(k + 1)}

\* ---- the traversal inputs: three blocks with distinct names, each a starter or not
TraversalNames == <<<<"A">>, <<"B">>, <<"A", " ", "1">>>>
TraversalBlocks ==
    {[k \in 1..Len(TraversalNames) |->
         Block(BlockIds[k], TraversalNames[k], t[k], GroupOutputs[k])] :
        t \in [1..Len(TraversalNames) -> BlockTypes]}

\* ---- the store contents and props the component is driven through
StarterBlock == Block(<<"s">>, <<"S">>, StarterType, WithResponse(StrLeaf))
AgentOne ==
    Block(BlockIds[1], <<"A", " ", "1">>, AgentType,
          WithResponse(Obj(<<<<<<"a">>, StrLeaf>>>>)))
AgentTwo ==
    Block(BlockIds[2], <<"B">>, AgentType,
          WithResponse(Obj(<<<<<<"a">>, StrLeaf>>, <<<<"a", ".", "a">>, NullLeaf>>>>)))

BlockPalette == {<<>>, <<StarterBlock, AgentOne>>, <<StarterBlock, AgentOne, AgentTwo>>}
EdgePalette ==
    {<<>>,
     <<Edge(<<"s">>, BlockIds[1]), Edge(BlockIds[1], BlockIds[2])>>,
     <<Edge(<<"s">>, BlockIds[2]), Edge(BlockIds[2], BlockIds[1])>>}
SelectedPalette ==
    {NullStr,
     BlockIds[1] \o Underscore \o ResponseKey \o Dot \o <<"a">>,
     BlockIds[2] \o Underscore \o ResponseKey \o Dot \o <<"a">>,
     <<"b9">> \o Underscore \o ResponseKey}

(***************************************************************************)
(* Initial states.                                                         *)
(***************************************************************************)
\* the component before its first render
InitSelect ==
    /\ mounted = FALSE
    /\ isOutputDropdownOpen = FALSE
    /\ listeners = 0
    /\ workflowOutputs = <<>>
    /\ selectedOutputDisplayName = Placeholder
    /\ selectedOutputInfo = <<>>
    /\ groupedOutputs = <<>>
    /\ blockDistances = <<>>
    /\ groupsArray = <<>>
    /\ callCount = 0
    /\ lastCall = NullStr

InitTraversalIdle ==
    /\ pc = "idle"
    /\ queue = <<>>
    /\ visited = {}
    /\ assignLog = <<>>
    /\ iterations = 0

InitNavFixed ==
    /\ isDev = FALSE
    /\ isTeam = FALSE
    /\ activeSection = "general"
    /\ navigationItems = NavigationItems(FALSE, FALSE)
    /\ sectionCallCount = 0
    /\ lastSectionCall = "none"

InitStoreEmpty ==
    /\ blocks = <<>>
    /\ edges = <<>>
    /\ workflowId = NullStr
    /\ selectedOutput = NullStr

(***************************************************************************)
(* OutputSelect: renders and events.                                       *)
(***************************************************************************)
\* the memos of a render in which workflowOutputs is recomputed (blocks or
\* workflowId changed, or the first render): groupedOutputs follows, reading
\* useWorkflowStore.getState().edges at that moment
RenderFromBlocks(bs, es, wfId, sel) ==
    \E outputs \in {WorkflowOutputs(bs, wfId)} :
    \E grouped \in {ComputeGroupedOutputs(outputs, bs, es)} :
        /\ workflowOutputs' = outputs
        /\ selectedOutputDisplayName' = SelectedOutputDisplayName(sel, outputs)
        /\ selectedOutputInfo' = SelectedOutputInfo(sel, outputs)
        /\ groupedOutputs' = grouped.groupedOutputs
        /\ blockDistances' = grouped.blockDistances
        /\ groupsArray' = grouped.groupsArray

\* first render, then the effect
Mount ==
    /\ ~mounted
    /\ mounted' = TRUE
    /\ isOutputDropdownOpen' = FALSE
    /\ listeners' = EffectMount(listeners)
    /\ RenderFromBlocks(blocks, edges, workflowId, selectedOutput)
    /\ UNCHANGED <<storeVars, propVars, callVars, bfsVars, navVars>>

\* the instance goes away: the effect's cleanup runs, state and memos are dropped
Unmount ==
    /\ mounted
    /\ mounted' = FALSE
    /\ isOutputDropdownOpen' = FALSE
    /\ listeners' = EffectCleanup(listeners)
    /\ workflowOutputs' = <<>>
    /\ selectedOutputDisplayName' = Placeholder
    /\ selectedOutputInfo' = <<>>
    /\ groupedOutputs' = <<>>
    /\ blockDistances' = <<>>
    /\ groupsArray' = <<>>
    /\ UNCHANGED <<storeVars, propVars, callVars, bfsVars, navVars>>

\* the store replaces state.blocks; the component selects state.blocks (line 24)
\* and re-renders
StoreSetBlocks(bs) ==
    /\ blocks' = bs
    /\ IF mounted
       THEN RenderFromBlocks(bs, edges, workflowId, selectedOutput)
       ELSE UNCHANGED memoVars
    /\ UNCHANGED <<edges, propVars, selectVars, callVars, bfsVars, navVars>>

\* the store replaces state.edges; nothing of the component selects it
StoreSetEdges(es) ==
    /\ es # edges
    /\ edges' = es
    /\ UNCHANGED <<blocks, propVars, selectVars, memoVars, callVars, bfsVars, navVars>>

\* the parent passes another workflowId
SetWorkflowId(wfId) ==
    /\ wfId # workflowId
    /\ workflowId' = wfId
    /\ IF mounted
       THEN RenderFromBlocks(blocks, edges, wfId, selectedOutput)
       ELSE UNCHANGED memoVars
    /\ UNCHANGED <<storeVars, selectedOutput, selectVars, callVars, bfsVars, navVars>>

\* the parent passes another selectedOutput: only the two selected-output memos
\* have a changed dependency
SetSelectedOutput(sel) ==
    /\ sel # selectedOutput
    /\ selectedOutput' = sel
    /\ IF mounted
       THEN /\ selectedOutputDisplayName' = SelectedOutputDisplayName(sel, workflowOutputs)
            /\ selectedOutputInfo' = SelectedOutputInfo(sel, workflowOutputs)
       ELSE UNCHANGED <<selectedOutputDisplayName, selectedOutputInfo>>
    /\ UNCHANGED <<storeVars, workflowId, selectVars, workflowOutputs, groupedOutputs,
                   blockDistances, groupsArray, callVars, bfsVars, navVars>>

\* onClick of the button (line 205), enabled while there are outputs
ToggleDropdown ==
    /\ mounted
    /\ Len(workflowOutputs) > 0
    /\ isOutputDropdownOpen' = ~isOutputDropdownOpen
    /\ UNCHANGED <<storeVars, propVars, mounted, listeners, memoVars, callVars, bfsVars,
                   navVars>>

\* onClick of option i of group g (line 253): handleOutputSelection(output.id)
ClickOption(g, i) ==
    /\ mounted
    /\ isOutputDropdownOpen
    /\ Len(workflowOutputs) > 0
    /\ g \in 1..Len(groupedOutputs)
    /\ i \in 1..Len(groupedOutputs[g][2])
    /\ callCount < MaxCalls
    /\ callCount' = callCount + 1
    /\ lastCall' = groupedOutputs[g][2][i].id
    /\ isOutputDropdownOpen' = FALSE
    /\ UNCHANGED <<storeVars, propVars, mounted, listeners, memoVars, bfsVars, navVars>>

\* a mousedown on the document, inside the dropdown element or not
MouseDown(inside) ==
    /\ inside => mounted
    /\ isOutputDropdownOpen' =
          HandleClickOutside(isOutputDropdownOpen, listeners, mounted, inside)
    /\ UNCHANGED <<storeVars, propVars, mounted, listeners, memoVars, callVars, bfsVars,
                   navVars>>

(***************************************************************************)
(* groupedOutputs, one iteration of its while loop at a time.              *)
(***************************************************************************)
\* lines 104-125
BfsBegin ==
    /\ pc = "start"
    /\ LET starterBlockId == StarterBlockId(blocks)
       IN  IF TruthyStr(starterBlockId)
           THEN queue' = BfsStart(starterBlockId).queue
           ELSE queue' = <<>>
    /\ visited' = {}
    /\ blockDistances' = <<>>
    /\ pc' = "loop"
    /\ UNCHANGED <<storeVars, propVars, selectVars, workflowOutputs,
                   selectedOutputDisplayName, selectedOutputInfo, groupedOutputs,
                   groupsArray, callVars, assignLog, iterations, navVars>>

\* lines 127-141, once
BfsIterate ==
    /\ pc = "loop"
    /\ Len(queue) > 0
    /\ LET st == BfsIteration([queue |-> queue, visited |-> visited,
                               blockDistances |-> blockDistances, assigned |-> <<>>],
                              AdjList(edges))
       IN  /\ queue' = st.queue
           /\ visited' = st.visited
           /\ blockDistances' = st.blockDistances
           /\ assignLog' = assignLog \o st.assigned
    /\ iterations' = iterations + 1
    /\ UNCHANGED <<storeVars, propVars, selectVars, workflowOutputs,
                   selectedOutputDisplayName, selectedOutputInfo, groupedOutputs,
                   groupsArray, callVars, pc, navVars>>

\* lines 144-171, when the loop is over
BfsGroup ==
    /\ pc = "loop"
    /\ Len(queue) = 0
    /\ LET sorted == SortByDistance(
                        GroupsArray(GroupByName(<<>>, workflowOutputs), blockDistances))
       IN  /\ groupsArray' = sorted
           /\ groupedOutputs' = ReduceToRecord(<<>>, sorted)
    /\ pc' = "done"
    /\ UNCHANGED <<storeVars, propVars, selectVars, workflowOutputs,
                   selectedOutputDisplayName, selectedOutputInfo, blockDistances,
                   callVars, queue, visited, assignLog, iterations, navVars>>

(***************************************************************************)
(* SettingsNavigation: renders and clicks.                                 *)
(***************************************************************************)
\* the parent renders the navigation with these props
NavRender(team, section) ==
    /\ <<team, section>> # <<isTeam, activeSection>>
    /\ isTeam' = team
    /\ activeSection' = section
    /\ navigationItems' = NavigationItems(isDev, team)
    /\ UNCHANGED <<storeVars, propVars, selectVars, memoVars, callVars, bfsVars, isDev,
                   sectionCallCount, lastSectionCall>>

\* onClick of item i (line 82): onSectionChange(item.id)
NavClick(i) ==
    /\ i \in 1..Len(navigationItems)
    /\ sectionCallCount < MaxCalls
    /\ sectionCallCount' = sectionCallCount + 1
    /\ lastSectionCall' = navigationItems[i].id
    /\ UNCHANGED <<storeVars, propVars, selectVars, memoVars, callVars, bfsVars, isDev,
                   isTeam, activeSection, navigationItems>>

(***************************************************************************)
(* Specifications.                                                         *)
(***************************************************************************)
\* the component driven by its store and its parent
Init ==
    /\ blocks \in BlockPalette
    /\ edges \in EdgePalette
    /\ workflowId \in WorkflowIds
    /\ selectedOutput \in SelectedPalette
    /\ InitSelect
    /\ InitTraversalIdle
    /\ InitNavFixed

Next ==
    \/ Mount
    \/ Unmount
    \/ \E bs \in BlockPalette : StoreSetBlocks(bs)
    \/ \E es \in EdgePalette : StoreSetEdges(es)
    \/ \E wfId \in WorkflowIds : SetWorkflowId(wfId)
    \/ \E sel \in SelectedPalette : SetSelectedOutput(sel)
    \/ ToggleDropdown
    \/ \E g \in 1..Len(groupedOutputs) :
          \E i \in 1..Len(groupedOutputs[g][2]) : ClickOption(g, i)
    \/ \E inside \in BOOLEAN : MouseDown(inside)

Spec == Init /\ [][Next]_vars

\* workflowOutputs over bounded block lists
InitFlatten ==
    /\ blocks \in FlattenBlocksFrom(1, MaxNodes)
    /\ edges = <<>>
    /\ workflowId \in WorkflowIds
    /\ selectedOutput = NullStr
    /\ InitSelect
    /\ InitTraversalIdle
    /\ InitNavFixed

NextFlatten == Mount

SpecFlatten == InitFlatten /\ [][NextFlatten]_vars

\* groupedOutputs over bounded block lists and edge lists
InitGroup ==
    /\ blocks \in GroupBlocksFrom(1)
    /\ edges \in EdgeSeqs(MaxGroupEdges)
    /\ workflowId = <<"w">>
    /\ selectedOutput = NullStr
    /\ InitSelect
    /\ InitTraversalIdle
    /\ InitNavFixed

NextGroup == Mount

SpecGroup == InitGroup /\ [][NextGroup]_vars

\* the traversal, stepwise, inside a first render
InitBFS ==
    /\ blocks \in TraversalBlocks
    /\ edges \in EdgeSeqs(MaxEdges)
    /\ workflowId = <<"w">>
    /\ selectedOutput = NullStr
    /\ mounted = FALSE
    /\ isOutputDropdownOpen = FALSE
    /\ listeners = 0
    /\ workflowOutputs = WorkflowOutputs(blocks, workflowId)
    /\ selectedOutputDisplayName = Placeholder
    /\ selectedOutputInfo = <<>>
    /\ groupedOutputs = <<>>
    /\ blockDistances = <<>>
    /\ groupsArray = <<>>
    /\ callCount = 0
    /\ lastCall = NullStr
    /\ pc = "start"
    /\ queue = <<>>
    /\ visited = {}
    /\ assignLog = <<>>
    /\ iterations = 0
    /\ InitNavFixed

NextBFS == BfsBegin \/ BfsIterate \/ BfsGroup

SpecBFS == InitBFS /\ [][NextBFS]_vars

\* the navigation under every environment
InitNav ==
    /\ InitStoreEmpty
    /\ InitSelect
    /\ InitTraversalIdle
    /\ isDev \in BOOLEAN
    /\ isTeam \in BOOLEAN
    /\ activeSection \in SectionIds
    /\ navigationItems = NavigationItems(isDev, isTeam)
    /\ sectionCallCount = 0
    /\ lastSectionCall = "none"

NextNav ==
    \/ \E team \in BOOLEAN, section \in SectionIds : NavRender(team, section)
    \/ \E i \in 1..Len(allNavigationItems) : NavClick(i)

SpecNav == InitNav /\ [][NextNav]_vars

(***************************************************************************)
(* Properties.                                                             *)
(***************************************************************************)
Count(seq, x) == Cardinality({i \in 1..Len(seq) : seq[i] = x})

\* the key sequences that lead from a value down to its leaves
RECURSIVE LeafKeyPaths(_)
LeafKeyPaths(v) ==
    IF v.tag = "obj"
    THEN UNION {{<<v.entries[i][1]>> \o ks : ks \in LeafKeyPaths(v.entries[i][2])} :
                    i \in 1..Len(v.entries)}
    ELSE {<<>>}

\* 'response' followed by the keys, joined by dots
RECURSIVE DotJoined(_)
DotJoined(ks) == IF ks = <<>> THEN <<>> ELSE Dot \o ks[1] \o DotJoined(Tail(ks))
PathOfKeys(ks) == ResponseKey \o DotJoined(ks)

\* outputs.response is there: neither undefined nor null
HasResponse(block) ==
    /\ block.outputs.tag = "obj"
    /\ GetProp(block.outputs, ResponseKey).tag \notin {"undef", "null"}

ExpectedLeaves(block) ==
    IF block.type # StarterType /\ HasResponse(block)
    THEN LeafKeyPaths(GetProp(block.outputs, ResponseKey))
    ELSE {}

\* C1: with a non-null workflowId, the handle list holds, for every block and
\* every path, as many handles of that block with that path as the block has
\* leaves under outputs.response whose dot-joined key sequence (after 'response')
\* is that path, none for a starter block or a block without outputs.response,
\* and every handle carries the id, name and type of a block of the store.
C1_HandlesAreLeaves ==
    (mounted /\ workflowId # NullStr) =>
        /\ \A i \in 1..Len(workflowOutputs) :
              \E k \in 1..Len(blocks) :
                  /\ workflowOutputs[i].blockId = blocks[k].id
                  /\ workflowOutputs[i].blockName = blocks[k].name
                  /\ workflowOutputs[i].blockType = blocks[k].type
        /\ \A k \in 1..Len(blocks) :
              \A p \in {workflowOutputs[i].path : i \in 1..Len(workflowOutputs)}
                       \cup {PathOfKeys(ks) : ks \in ExpectedLeaves(blocks[k])} :
                  Cardinality({i \in 1..Len(workflowOutputs) :
                                  /\ workflowOutputs[i].blockId = blocks[k].id
                                  /\ workflowOutputs[i].path = p})
                  = Cardinality({ks \in ExpectedLeaves(blocks[k]) : PathOfKeys(ks) = p})

\* a starter block with a response beside a block whose nested leaf became a
\* handle
C1_Witness ==
    /\ mounted
    /\ workflowId # NullStr
    /\ \E k \in 1..Len(blocks) : blocks[k].type = StarterType /\ HasResponse(blocks[k])
    /\ \E i \in 1..Len(workflowOutputs) : Len(workflowOutputs[i].path) >= 3

\* C5: no two handles of the handle list have the same id.
C5_IdsUnique ==
    mounted =>
        \A i, j \in 1..Len(workflowOutputs) :
            i # j => workflowOutputs[i].id # workflowOutputs[j].id

\* the distance groupedOutputs uses for the group rendered at position g
RenderedDistance(g) == DistanceOrZero(blockDistances, groupedOutputs[g][2][1].blockId)

\* where the handle list first names the group rendered at position g
Discovered(g) ==
    CHOOSE i \in 1..Len(workflowOutputs) :
        /\ workflowOutputs[i].blockName = groupedOutputs[g][1]
        /\ \A j \in 1..(i - 1) : workflowOutputs[j].blockName # groupedOutputs[g][1]

\* C2: in Object.entries(groupedOutputs), a group with a greater distance comes
\* before a group with a smaller one, and groups of equal distance come in the
\* order in which the handle list first names them.
C2_GroupsOrdered ==
    mounted =>
        \A g, h \in 1..Len(groupedOutputs) :
            g < h =>
                /\ RenderedDistance(g) >= RenderedDistance(h)
                /\ RenderedDistance(g) = RenderedDistance(h) => Discovered(g) < Discovered(h)

RECURSIVE FlattenGroups(_)
FlattenGroups(groups) ==
    IF groups = <<>> THEN <<>> ELSE groups[1][2] \o FlattenGroups(Tail(groups))

C4_GroupingCurrent ==
    mounted =>
        groupedOutputs =
            ComputeGroupedOutputs(WorkflowOutputs(blocks, workflowId), blocks, edges)
                .groupedOutputs

\* no handle of the current handle list has the selected id
NoSuchHandle ==
    \A h \in Range(WorkflowOutputs(blocks, workflowId)) : h.id # selectedOutput

C6_Fallback ==
    (mounted /\ (selectedOutput = NullStr \/ NoSuchHandle)) =>
        /\ selectedOutputDisplayName = Placeholder
        /\ selectedOutputInfo = <<>>

C6_OnlyClicksCall ==
    (callCount' # callCount \/ lastCall' # lastCall) =>
        /\ \E g \in 1..Len(groupedOutputs) :
              \E i \in 1..Len(groupedOutputs[g][2]) :
                  /\ ClickOption(g, i)
                  /\ lastCall' = groupedOutputs[g][2][i].id
        /\ callCount' = callCount + 1

\* C6: while selectedOutput is null or the id of no handle of the current handle
\* list, the displayed text is the placeholder and the selected-block info is
\* null; and onOutputSelect is invoked only by a click on an option, once, with
\* that option's id.
C6_PlaceholderFallback == []C6_Fallback /\ [][C6_OnlyClicksCall]_vars

\* the selected handle's block was deleted after a click had selected something
C6_Witness ==
    /\ mounted
    /\ callCount > 0
    /\ workflowId # NullStr
    /\ selectedOutput = BlockIds[2] \o Underscore \o ResponseKey \o Dot \o <<"a">>
    /\ blocks = <<StarterBlock, AgentOne>>
    /\ selectedOutputDisplayName = Placeholder

C8_OneListener ==
    /\ mounted => listeners = 1
    /\ ~mounted => listeners = 0

C8_MouseDownCloses ==
    /\ (mounted /\ MouseDown(FALSE)) => isOutputDropdownOpen' = FALSE
    /\ MouseDown(TRUE) => isOutputDropdownOpen' = isOutputDropdownOpen

\* C8: exactly one mousedown listener of the instance is registered while it is
\* mounted and none when it is not; while mounted a mousedown outside the
\* dropdown element closes the dropdown and a mousedown inside leaves the open
\* flag as it is.
C8_ListenerScoped == []C8_OneListener /\ [][C8_MouseDownCloses]_vars

\* unmounted after a life in which an option was clicked
C8_Witness ==
    /\ ~mounted
    /\ listeners = 0
    /\ callCount > 0

\* the ids assigned so far are pairwise different
NoReassignment ==
    \A i, j \in 1..Len(assignLog) : i # j => assignLog[i] # assignLog[j]

\* C7: the traversal assigns a distance to each node id at most once and adds it
\* to the visited set at most once, and it terminates: the iterations done plus
\* the entries still queued never exceed one plus the number of edges, and the
\* computation is over as soon as the loop has found the queue empty.
C7_VisitOnce ==
    /\ NoReassignment
    /\ Range(assignLog) = visited
    /\ DOMAIN blockDistances = visited
    /\ pc \in {"loop", "done"} => iterations + Len(queue) <= 1 + Len(edges)
    /\ pc = "done" => queue = <<>>

\* a finished traversal that met a cycle: two nodes with edges both ways, and an
\* iteration that skipped a visited node
C7_Witness ==
    /\ pc = "done"
    /\ iterations > Cardinality(visited)
    /\ \E a, b \in visited :
          /\ a # b
          /\ \E i, j \in 1..Len(edges) :
                /\ edges[i] = Edge(a, b)
                /\ edges[j] = Edge(b, a)

\* a set of node ids and the targets of the edges that leave it
Expand(nodes) ==
    nodes \cup {edges[i].target : i \in {j \in 1..Len(edges) : edges[j].source \in nodes}}

\* the nodes reachable from s along at most k edges
RECURSIVE ReachWithin(_, _)
ReachWithin(s, k) == IF k = 0 THEN {s} ELSE Expand(ReachWithin(s, k - 1))

Reachable(s, n) == n \in ReachWithin(s, Len(edges))

\* the fewest edges of a directed path to n from a node of the set, for a
\* reachable n, plus k
RECURSIVE EdgesTo(_, _, _)
EdgesTo(nodes, n, k) == IF n \in nodes THEN k ELSE EdgesTo(Expand(nodes), n, k + 1)

\* the fewest edges of a directed path from s to a reachable n
ShortestPath(s, n) == EdgesTo({s}, n, 0)

ExpectedDistance(n) ==
    IF StarterBlockId(blocks) # NullStr /\ Reachable(StarterBlockId(blocks), n)
    THEN ShortestPath(StarterBlockId(blocks), n)
    ELSE 0

\* C10: after the computation, with a starter block the distance assigned to a
\* node id is the length of a shortest directed path from the starter block to
\* it, and ids not reachable from the starter block are assigned none; the
\* distance used for a group is that of its block when the block is reachable
\* from a starter block, and 0 otherwise.
C10_ShortestDistances ==
    pc = "done" =>
        /\ StarterBlockId(blocks) = NullStr => DOMAIN blockDistances = {}
        /\ StarterBlockId(blocks) # NullStr =>
              \A n \in NodeIds \cup {blocks[k].id : k \in 1..Len(blocks)} :
                  IF Reachable(StarterBlockId(blocks), n)
                  THEN /\ n \in DOMAIN blockDistances
                       /\ blockDistances[n] = ShortestPath(StarterBlockId(blocks), n)
                  ELSE n \notin DOMAIN blockDistances
        /\ \A g \in 1..Len(groupsArray) :
              groupsArray[g].distance = ExpectedDistance(groupsArray[g].outputs[1].blockId)

\* a block reached by a path of one edge and by a path of two edges
C10_Witness ==
    /\ pc = "done"
    /\ StarterBlockId(blocks) # NullStr
    /\ \E g \in 1..Len(groupsArray) :
          \E m \in NodeIds :
              /\ groupsArray[g].distance = 1
              /\ m \in DOMAIN blockDistances
              /\ blockDistances[m] = 1
              /\ m # groupsArray[g].outputs[1].blockId
              /\ \E i \in 1..Len(edges) :
                    edges[i] = Edge(m, groupsArray[g].outputs[1].blockId)

\* C3: the rendered items are the items of allNavigationItems that are not
\* (hideInDev and isDev) and not (requiresTeam and not isTeam), each once, in the
\* order of allNavigationItems.
C3_FilteredInOrder ==
    /\ \A k \in 1..Len(allNavigationItems) :
          Count(navigationItems, allNavigationItems[k])
          = IF /\ ~(allNavigationItems[k].hideInDev /\ isDev)
               /\ ~(allNavigationItems[k].requiresTeam /\ ~isTeam)
            THEN 1
            ELSE 0
    /\ \A i \in 1..Len(navigationItems) :
          \E k \in 1..Len(allNavigationItems) : navigationItems[i] = allNavigationItems[k]
    /\ \A i, j \in 1..Len(navigationItems) :
          i < j =>
              \E k, l \in 1..Len(allNavigationItems) :
                  /\ k < l
                  /\ navigationItems[i] = allNavigationItems[k]
                  /\ navigationItems[j] = allNavigationItems[l]

\* outside dev mode and without a team, after a click: subscription is rendered
\* and team is not
C3_Witness ==
    /\ ~isDev
    /\ ~isTeam
    /\ sectionCallCount > 0
    /\ \E i \in 1..Len(navigationItems) : navigationItems[i].id = "subscription"
    /\ \A i \in 1..Len(navigationItems) : navigationItems[i].id # "team"

====
